---- MODULE Spec2Model ----
(***************************************************************************)
(* Model of the IRBC incident-reporting backend (src/server.js and         *)
(* src/models/Incident.js): the Incident collection, the multer upload     *)
(* middleware, and the three /api/incidents routes.                        *)
(*                                                                         *)
(* Text values are sequences of one-character strings so that the schema's *)
(* trim setter is computed, not assumed.  A request body is a record whose *)
(* DOMAIN holds exactly the fields the client sent; a field that is not in *)
(* the DOMAIN is JavaScript's undefined.  The database is taken to be      *)
(* reachable: connection failures are outside the model.  The library      *)
(* calls are modelled by their documented behaviour: save() validates,     *)
(* findByIdAndUpdate casts the id (a string that is no ObjectId makes it   *)
(* throw), strips undefined keys from the update and runs no validators;   *)
(* multer hands a filter or size error to next(); Express answers an       *)
(* error nobody handles with 500 and an HTML page.                         *)
(***************************************************************************)
EXTENDS Integers, Sequences, FiniteSets, TLC

\* ------------------------------------------------------------------ bounds
MaxStore == 2   \* incidents stored or being saved
MaxClock == 2   \* values Date.now() takes (milliseconds 1..MaxClock)

\* ------------------------------------------------------- program constants
fileSize == 1024 * 1024 * 5

AllowedMimetypes == {"image/jpeg", "image/png"}

StatusEnum == {"Pending", "In Progress", "Resolved", "Rejected"}

StatusDefault == "Pending"

AdminNotesDefault == <<>>

FieldName == "incidentImage"

RequiredPaths == {"title", "details", "address", "imageUrl"}

\* ------------------------------------------------------------ text helpers
Space == " "

RECURSIVE TrimLeft(_)
TrimLeft(s) ==
    IF s # <<>> /\ Head(s) = Space THEN TrimLeft(Tail(s)) ELSE s

RECURSIVE TrimRight(_)
TrimRight(s) ==
    IF s # <<>> /\ s[Len(s)] = Space THEN TrimRight(SubSeq(s, 1, Len(s) - 1)) ELSE s

\* schema option trim: true on title
Trim(s) == TrimRight(TrimLeft(s))

\* a record without one of its keys
Without(b, k) == [x \in DOMAIN b \ {k} |-> b[x]]

\* ------------------------------------------------------------------ inputs
\* multipart text fields: a complete form, one whose title is padded with
\* spaces, and forms with one field absent, empty or blank
Tt == <<"P", "h">>
Td == <<"L", "p">>
Ta == <<"M", "s">>
Tl == <<"p", "k">>

FullBody == [title |-> Tt, details |-> Td, address |-> Ta, landmark |-> Tl]

PaddedBody == [FullBody EXCEPT !.title = <<Space, "P", "h", Space>>]

Bodies ==
    { FullBody, PaddedBody,
      Without(FullBody, "title"),
      [FullBody EXCEPT !.title = <<>>],
      [FullBody EXCEPT !.title = <<Space, Space>>],
      Without(FullBody, "details"),
      [FullBody EXCEPT !.details = <<>>],
      Without(FullBody, "address"),
      [FullBody EXCEPT !.address = <<>>],
      [x \in {} |-> <<>>] }

\* the multipart file part: declared media type, size in bytes, and the
\* extension of its original name (which the client chooses freely)
NoFile == [attached |-> FALSE, mimetype |-> "", size |-> 0, ext |-> ""]

Files ==
    { NoFile,
      [attached |-> TRUE, mimetype |-> "image/jpeg", size |-> 200 * 1024, ext |-> ".jpg"],
      [attached |-> TRUE, mimetype |-> "image/png",  size |-> fileSize,   ext |-> ".jpg"],
      [attached |-> TRUE, mimetype |-> "image/gif",  size |-> 200 * 1024, ext |-> ".gif"],
      [attached |-> TRUE, mimetype |-> "image/jpeg", size |-> fileSize + 1, ext |-> ".jpg"] }

\* sample values of Math.round(Math.random() * 1E9)
RandomValues == {0, 1}

\* values of the secret header a client may send with an administrative
\* request; the routes never read it
SecretHeaders == {"<missing>", "letmein", "wrong"}

\* a well-formed ObjectId no document has
UnknownOid == MaxStore + 1

\* req.params.id: a well-formed ObjectId (wf) or any other string
ParamIds ==
    { [wf |-> TRUE, oid |-> i] : i \in (1..MaxStore) \cup {UnknownOid} }
        \cup { [wf |-> FALSE, oid |-> 0] }

\* JSON bodies of a status update: a valid status, an invalid one, none,
\* and one that carries a further field
PatchBodies ==
    { [status |-> "Resolved"], [status |-> "Bogus"], [x \in {} |-> ""],
      [status |-> "Resolved", adminNotes |-> <<"h", "i">>] }

\* ------------------------------------------------------------------- state
VARIABLES
    store,     \* the Incident collection, in insertion (natural) order
    saving,    \* submissions whose newIncident.save() has not completed
    clock,     \* Date.now()
    nextId,    \* source of fresh ObjectIds
    last       \* the exchange the latest step completed: request and response

vars == <<store, saving, clock, nextId, last>>

NoId == [wf |-> FALSE, oid |-> 0]

NoRequest ==
    [op |-> "none", hdr |-> "<missing>", file |-> NoFile, body |-> [x \in {} |-> <<>>],
     id |-> NoId, status |-> 0, json |-> FALSE, msg |-> "", result |-> <<>>]

\* ------------------------------------------------- src/models/Incident.js
\* new Incident(fields): setters and defaults of incidentSchema.  A path the
\* caller passed as undefined stays unset.
Incident(fields, oid, now) ==
    LET set == [k \in DOMAIN fields |->
                    IF k = "title" THEN Trim(fields[k]) ELSE fields[k]]
    IN  [_id |-> oid, status |-> StatusDefault, adminNotes |-> AdminNotesDefault,
         createdAt |-> now] @@ set

\* a required check that accepts the empty string
ValidationErrorsLax(doc) ==
    { p \in RequiredPaths : p \notin DOMAIN doc }

\* paths that fail validation in save(): a required path that is unset or
\* the empty string, or a status outside the enum
ValidationErrors(doc) ==
    { p \in RequiredPaths : p \notin DOMAIN doc \/ Len(doc[p]) = 0 }
        \cup { p \in {"status"} : doc.status \notin StatusEnum }

\* ----------------------------------------------------- multer (server.js)
\* storage.filename: fieldname-<Date.now()>-<random><extname(originalname)>
filename(file, now, r) == <<FieldName, now, r, file.ext>>

\* a filter that forgets image/png
fileFilterJpegOnly(file) == file.mimetype = "image/jpeg"

\* fileFilter: only image/jpeg and image/png are accepted
fileFilter(file) == file.mimetype \in AllowedMimetypes

\* upload.single('incidentImage'): the filter runs first, then the stream is
\* written under the generated name unless it grows past limits.fileSize
upload(file, now, r) ==
    IF ~file.attached THEN [err |-> "", hasFile |-> FALSE, filename |-> <<>>]
    ELSE IF ~fileFilter(file)
         THEN [err |-> "Only JPEG and PNG image files are allowed!",
               hasFile |-> FALSE, filename |-> <<>>]
    ELSE IF file.size > fileSize
         THEN [err |-> "File too large", hasFile |-> FALSE, filename |-> <<>>]
    ELSE [err |-> "", hasFile |-> TRUE, filename |-> filename(file, now, r)]

\* ---------------------------------------------------------------- queries
\* the _id values of a sequence of documents
Ids(s) == { s[i]._id : i \in 1..Len(s) }

RECURSIVE InsertDesc(_, _)
InsertDesc(sorted, d) ==
    IF sorted = <<>> THEN <<d>>
    ELSE IF Head(sorted).createdAt >= d.createdAt
         THEN <<Head(sorted)>> \o InsertDesc(Tail(sorted), d)
         ELSE <<d>> \o sorted

RECURSIVE SortDesc(_)
SortDesc(s) ==
    IF s = <<>> THEN <<>>
    ELSE InsertDesc(SortDesc(SubSeq(s, 1, Len(s) - 1)), s[Len(s)])

\* find() without the sort: natural order
FindNatural(s) == s

\* Incident.find().sort({ createdAt: -1 })
FindSorted(s) == SortDesc(s)

\* ------------------------------------------------------------------- Init
Init ==
    /\ store = <<>>
    /\ saving = {}
    /\ clock = 1
    /\ nextId = 1
    /\ last = NoRequest

\* ---------------------------------------------------------------- actions
\* Date.now() advances
Tick ==
    /\ clock < MaxClock
    /\ clock' = clock + 1
    /\ UNCHANGED <<store, saving, nextId, last>>

\* a handler without the req.file check
ImageRequiredNever(up) == FALSE

\* if (!req.file)
ImageRequired(up) == ~up.hasFile

\* POST /api/incidents up to "await newIncident.save()": multer, the
\* req.file check, construction and validation of the document.  An error
\* multer passes to next() is answered by Express's default error handler
\* (no error middleware is installed): 500 with an HTML body.  A submission
\* that passes is left with status 0: its response comes from SaveDone.
Submit(file, body, r) ==
    LET up  == upload(file, clock, r)
        req == [NoRequest EXCEPT !.op = "post", !.file = file, !.body = body]
    IN
    /\ last = NoRequest
    /\ IF up.err # ""
       THEN /\ last' = [req EXCEPT !.status = 500, !.json = FALSE, !.msg = up.err]
            /\ UNCHANGED <<store, saving, clock, nextId>>
       ELSE IF ImageRequired(up)
       THEN /\ last' = [req EXCEPT !.status = 400, !.json = TRUE,
                                   !.msg = "Error: Image upload is required."]
            /\ UNCHANGED <<store, saving, clock, nextId>>
       ELSE
           LET fields == [k \in (DOMAIN body) \cap {"title", "details", "address", "landmark"}
                             |-> body[k]]
                         @@ [imageUrl |-> <<"/uploads/", up.filename>>]
               newIncident == Incident(fields, nextId, clock)
           IN
           IF ValidationErrors(newIncident) # {}
           THEN /\ last' = [req EXCEPT !.status = 500, !.json = TRUE,
                                       !.msg = "Server error occurred while submitting."]
                /\ UNCHANGED <<store, saving, clock, nextId>>
           ELSE /\ Len(store) + Cardinality(saving) < MaxStore
                /\ saving' = saving \cup {newIncident}
                /\ nextId' = nextId + 1
                /\ last' = req
                /\ UNCHANGED <<store, clock>>

\* newIncident.save() completes: the document is inserted and the handler
\* answers 201 with its id (the inputs of that request are not kept)
SaveDone(doc) ==
    /\ doc \in saving
    /\ store' = Append(store, doc)
    /\ saving' = saving \ {doc}
    /\ last' = [NoRequest EXCEPT !.op = "post.saved", !.status = 201, !.json = TRUE,
                   !.msg = "Incident submitted successfully to Municipal Authority!",
                   !.id = [wf |-> TRUE, oid |-> doc._id]]
    /\ UNCHANGED <<clock, nextId>>

\* GET /api/incidents
List(hdr) ==
    /\ last = NoRequest
    /\ last' = [NoRequest EXCEPT !.op = "list", !.hdr = hdr, !.status = 200,
                                 !.json = TRUE, !.result = FindSorted(store)]
    /\ UNCHANGED <<store, saving, clock, nextId>>

\* position of the document findByIdAndUpdate matches
Index(s, oid) == CHOOSE i \in 1..Len(s) : s[i]._id = oid

\* findByIdAndUpdate's $set of the update document on one stored document.
\* A key whose value is undefined is stripped from the update; validators
\* (the enum) do not run on updates unless runValidators is passed.
ApplyUpdate(doc, update) ==
    [k \in DOMAIN doc |-> IF k \in DOMAIN update THEN update[k] ELSE doc[k]]

\* an update built from the whole request body
UpdateBodyWhole(body) == body

\* the update document the handler passes: { status: status }
UpdateOf(body) == [k \in (DOMAIN body) \cap {"status"} |-> body[k]]

\* PATCH /api/incidents/:id/status
UpdateStatus(hdr, id, body) ==
    LET req == [NoRequest EXCEPT !.op = "patch", !.hdr = hdr, !.id = id]
    IN
    /\ last = NoRequest
    /\ IF ~id.wf
       THEN /\ last' = [req EXCEPT !.status = 500, !.json = TRUE,
                                   !.msg = "Error updating status"]
            /\ UNCHANGED <<store, saving, clock, nextId>>
       ELSE IF id.oid \notin Ids(store)
       THEN /\ last' = [req EXCEPT !.status = 404, !.json = TRUE,
                                   !.msg = "Incident not found"]
            /\ UNCHANGED <<store, saving, clock, nextId>>
       ELSE
           LET i   == Index(store, id.oid)
               upd == ApplyUpdate(store[i], UpdateOf(body))
           IN  /\ store' = [store EXCEPT ![i] = upd]
               /\ last' = [req EXCEPT !.status = 200, !.json = TRUE,
                                      !.result = <<upd>>]
               /\ UNCHANGED <<saving, clock, nextId>>

\* the exchange is over and no longer observed; last only records what a
\* step did, so taking up the next request after Sent restricts no behaviour
\* of store, saving, clock and nextId
Sent ==
    /\ last # NoRequest
    /\ last' = NoRequest
    /\ UNCHANGED <<store, saving, clock, nextId>>

Next ==
    \/ Tick
    \/ Sent
    \/ \E file \in Files, body \in Bodies, r \in RandomValues : Submit(file, body, r)
    \/ \E doc \in saving : SaveDone(doc)
    \/ \E hdr \in SecretHeaders : List(hdr)
    \/ \E hdr \in SecretHeaders, id \in ParamIds, body \in PatchBodies :
           UpdateStatus(hdr, id, body)

Spec == Init /\ [][Next]_vars

\* ------------------------------------------------ vocabulary of the claims
\* the configured secret the Access Gate compares the header with
AdminSecret == "letmein"

OnlyWhitespace(t) == \A i \in 1..Len(t) : t[i] = Space

AbsentOrEmpty(body, k) == k \notin DOMAIN body \/ Len(body[k]) = 0

\* title, details and address are all sent and none is the empty string
LiterallyFilled(body) ==
    \A k \in {"title", "details", "address"} : ~AbsentOrEmpty(body, k)

\* one of title, details, address is absent or empty, a title of only
\* whitespace counting as empty
TextIncomplete(body) ==
    \/ ~LiterallyFilled(body)
    \/ OnlyWhitespace(body.title)

\* a JPEG or PNG file of at most 5 MiB
FileSupported(f) ==
    /\ f.attached
    /\ f.mimetype \in {"image/jpeg", "image/png"}
    /\ f.size <= 5 * 1024 * 1024

ResultIds == { last.result[j]._id : j \in 1..Len(last.result) }

\* ------------------------------------------------------------------ claims

\* C1: an administrative request (list, status update) whose secret header
\* is missing or differs from the configured secret is answered 403 and
\* neither reads nor writes the store.  The routes compare no header at
\* all, so this fails.
C1_GateRejects ==
    last.op \in {"list", "patch"} /\ last.hdr # AdminSecret
        => last.status = 403 /\ last.result = <<>>

\* C2: the status of every stored incident is one of Pending, In Progress,
\* Resolved, Rejected.  findByIdAndUpdate runs no validators, so a status
\* update stores any string.
C2_StatusInEnum ==
    \A i \in 1..Len(store) : store[i].status \in StatusEnum

\* C3: a submission with a supported file whose title, details or address
\* is absent or empty (title: also only whitespace)
C3_Case ==
    /\ last.op = "post"
    /\ FileSupported(last.file)
    /\ TextIncomplete(last.body)

\* C3 as written: such a submission is answered with HTTP 400 and the
\* stored incidents are unchanged.
C3_Original ==
    /\ [](C3_Case => last.status = 400)
    /\ [][last = NoRequest /\ C3_Case' => store' = store /\ saving' = saving]_vars

\* C3 amended: such a submission fails in the handler's catch block, which
\* answers HTTP 500 (JSON, 'Server error occurred while submitting.'), and
\* nothing is stored or queued for saving.
C3_Amended ==
    /\ [](C3_Case => /\ last.status = 500
                     /\ last.json
                     /\ last.msg = "Server error occurred while submitting.")
    /\ [][last = NoRequest /\ C3_Case' => store' = store /\ saving' = saving]_vars

C3_Witness ==
    /\ C3_Case
    /\ last.status = 500
    /\ LiterallyFilled(last.body)
    /\ Len(store) >= 1

\* C4: what follows a submission, and the read route
C4_Effects ==
    /\ [](/\ last.op = "post.saved" =>
                /\ last.status = 201
                /\ \E i \in 1..Len(store) :
                      /\ store[i]._id = last.id.oid
                      /\ store[i].status = "Pending"
                      /\ store[i].adminNotes = <<>>
          /\ last.op = "list" => Ids(store) \subseteq ResultIds)
    /\ [][/\ Ids(store) \subseteq Ids(store')
          /\ \A d \in saving \ saving' :
                /\ last'.op = "post.saved"
                /\ last'.id.oid = d._id
                /\ store' = Append(store, d)]_vars

\* C4 as written: a submission with a supported file and non-empty title,
\* details and address is not answered with an error: it is saved (status
\* Pending, adminNotes ""), answered 201 with its id, and listed from then
\* on.
C4_Original ==
    /\ [](last.op = "post" /\ FileSupported(last.file) /\ LiterallyFilled(last.body)
            => /\ last.status = 0
               /\ \E d \in saving : d.status = "Pending" /\ d.adminNotes = <<>>)
    /\ C4_Effects

\* C4 amended: the same for a submission with a supported file, non-empty
\* details and address, and a title that is non-empty after trimming
\* surrounding whitespace.
C4_Amended ==
    /\ [](last.op = "post" /\ FileSupported(last.file) /\ ~TextIncomplete(last.body)
            => /\ last.status = 0
               /\ \E d \in saving : d.status = "Pending" /\ d.adminNotes = <<>>)
    /\ C4_Effects

C4_Witness ==
    /\ last.op = "list"
    /\ Len(last.result) = MaxStore
    /\ \E j \in 1..Len(last.result) : last.result[j].status = "Pending"
    /\ \E j \in 1..Len(last.result) : last.result[j].status # "Pending"

\* C5: a status update on the id of a stored incident changes nothing but
\* the status field of that incident: its other fields and every other
\* stored incident stay as they were.
C5_OnlyStatus ==
    [][last = NoRequest /\ last'.op = "patch" /\ last'.id.wf
          /\ last'.id.oid \in Ids(store)
        => /\ Len(store') = Len(store)
           /\ saving' = saving
           /\ \A i \in 1..Len(store) :
                 /\ DOMAIN store'[i] = DOMAIN store[i]
                 /\ \A k \in DOMAIN store[i] :
                       \/ store'[i][k] = store[i][k]
                       \/ k = "status" /\ store[i]._id = last'.id.oid]_vars

C5_Witness ==
    /\ last.op = "patch"
    /\ last.status = 200
    /\ Len(store) >= 2
    /\ last.result[1].status = "Resolved"
    /\ \E i \in 1..Len(store) : store[i].status = "Pending"

\* C6: a status update on an id that matches no stored incident is answered
\* 404 and leaves the store unchanged.  An id that is no ObjectId at all
\* makes findByIdAndUpdate throw, and the catch block answers 500.
C6_UnknownIs404 ==
    /\ [](last.op = "patch" /\ ~(last.id.wf /\ last.id.oid \in Ids(store))
            => last.status = 404)
    /\ [][last = NoRequest /\ last'.op = "patch"
              /\ ~(last'.id.wf /\ last'.id.oid \in Ids(store))
            => store' = store]_vars

\* C7: the list route returns every stored incident exactly once, ordered
\* by createdAt descending, whatever the order of insertion.
C7_ListSorted ==
    last.op = "list" =>
        /\ last.status = 200
        /\ Len(last.result) = Len(store)
        /\ \A i \in 1..Len(store) :
              Cardinality({ j \in 1..Len(last.result) : last.result[j] = store[i] }) = 1
        /\ \A j \in 1..(Len(last.result) - 1) :
              last.result[j].createdAt >= last.result[j + 1].createdAt

C7_Witness ==
    /\ last.op = "list"
    /\ Len(store) >= 2
    /\ store[1].createdAt < store[2].createdAt
    /\ last.result[1] = store[2]

\* C8: a submission without a file is answered 400 with the 'image
\* required' message, whatever its text fields are, and nothing is stored
\* or queued for saving.
C8_ImageRequired ==
    /\ [](last.op = "post" /\ ~last.file.attached
            => /\ last.status = 400
               /\ last.json
               /\ last.msg = "Error: Image upload is required.")
    /\ [][last = NoRequest /\ last'.op = "post" /\ ~last'.file.attached
            => store' = store /\ saving' = saving]_vars

C8_Witness ==
    /\ last.op = "post"
    /\ ~last.file.attached
    /\ last.body = FullBody
    /\ last.status = 400
    /\ Len(store) >= 1

\* C9: a submission whose file is neither JPEG nor PNG, or is larger than
\* 5 MiB, is answered with a client error: HTTP 400, JSON, and not the
\* missing-file message; nothing is stored.  multer's error reaches
\* Express's default error handler instead: 500, not JSON.
C9_UnsupportedIs400 ==
    /\ [](last.op = "post" /\ last.file.attached /\ ~FileSupported(last.file)
            => /\ last.status = 400
               /\ last.json
               /\ last.msg # "Error: Image upload is required.")
    /\ [][last = NoRequest /\ last'.op = "post" /\ last'.file.attached
              /\ ~FileSupported(last'.file)
            => store' = store /\ saving' = saving]_vars

\* C10: no two stored incidents share an imageUrl (no two accepted uploads
\* get the same stored filename).  Two uploads in the same millisecond that
\* draw the same random number get the same name.
C10_UniqueFilenames ==
    \A i, j \in 1..Len(store) : i # j => store[i].imageUrl # store[j].imageUrl

====
